---- MODULE Spec2Model ----
(***************************************************************************)
(* A model of CompressionMethod::compress (src/src/imagecompression.rs):   *)
(* one call of compress on a pixel buffer, an image and a seekable sink,   *)
(* for the three strategies CompressionMethodOriginal,                     *)
(* CompressionMethodOptimised and NoCompression.  The loops of the         *)
(* Original and Optimised branches advance one iteration per step, so that *)
(* the state at the head of every iteration is a state of the model.       *)
(*                                                                         *)
(* Indices are those of the code (0-based); Pixel(i) reads pixel_list[i].  *)
(***************************************************************************)
EXTENDS Integers, Sequences, FiniteSets

VARIABLES
    method,                      \* self: which CompressionMethod variant
    multiple_of_value,           \* CompressionMethodOptimised field
    min_transparent_to_compress, \* CompressionMethodOptimised field
    width, height, z_index,      \* image.img.width(), image.img.height(), image.z_index
    pixel_list,                  \* the pixel buffer (a value = a pixel)
    debug,                       \* the build has debug assertions (debug_assert!, overflow checks)
    file_data, file_pos,         \* the sink: its bytes and its position
    start_pos, start_data,       \* history: the sink's position and bytes when compress was called
    assembly_table,              \* Vec<ImageAssemblyEntry>
    emitted,                     \* history, one per table entry: what it was pushed for, and
                                 \*   the index of the first input pixel it stands for
    pc,                          \* "call", "original", "optimised", "nocompression",
                                 \*   "returned" (Ok(assembly_table)), "panicked", "aborted"
    loop_nb, actual_entry,       \* locals of the Original branch
    open_first_pixel,            \* history: first input pixel of the open Original entry
    pixel_id, number_of_byte_to_include, byte_include_start  \* locals of the Optimised branch

vars == <<method, multiple_of_value, min_transparent_to_compress, width, height,
          z_index, pixel_list, debug, file_data, file_pos, start_pos,
          start_data, assembly_table, emitted, pc, loop_nb, actual_entry, open_first_pixel,
          pixel_id, number_of_byte_to_include, byte_include_start>>

inputs == <<method, multiple_of_value, min_transparent_to_compress, width, height,
            z_index, pixel_list, debug, start_pos, start_data>>

-----------------------------------------------------------------------------
(* Bounds of the enumerated inputs.                                        *)

MaxLen == 7           \* longest pixel buffer given to Optimised and NoCompression
MaxTiles == 3         \* most 64-pixel tiles in an image given to Original
MaxMultiple == 4      \* largest multiple_of_value
MaxMinTransparent == 3 \* largest min_transparent_to_compress
MaxStart == 1         \* largest sink position at the call
MaxContent == 2       \* most bytes in the sink at the call

\* The table capacity: a run that terminates pushes at most one entry per
\* pixel and one more; only a run that pushes forever reaches it.
TableCap == MaxLen + 2

PixelValues == {0, 9}
ZIndexes == {3}
\* The bytes the sink holds before the call.
OldContent(n) == [i \in 1..n |-> 169 + i]

TileSize == 64        \* pixels of one 8x8 tile
TileBytes == 32       \* bytes of one packed tile
TileSide == 8

-----------------------------------------------------------------------------
(* Helpers.                                                                *)

Pixel(i) == pixel_list[i + 1]

RECURSIVE SeqsUpTo(_, _)
SeqsUpTo(S, n) ==
    IF n = 0 THEN {<<>>}
    ELSE LET shorter == SeqsUpTo(S, n - 1)
         IN  shorter \cup {Append(s, x) : s \in {t \in shorter : Len(t) = n - 1}, x \in S}

Zeros(n) == [i \in 1..n |-> 0]

\* ((a << 4) + b) as u8 on u8 operands: the shift drops the high bits.  The
\* sum cannot overflow for pixels below 16, the only ones enumerated.
Pack(a, b) == (((a * 16) % 256) + b) % 256

\* file.write of one byte at the sink's position (a cursor over a byte
\* vector): inside the content the byte is overwritten, at its end it is
\* appended, and past its end the gap is filled with zeros first.
WriteByte(data, pos, byte) ==
    IF pos < Len(data) THEN [data EXCEPT ![pos + 1] = byte]
    ELSE Append(data \o [i \in 1..(pos - Len(data)) |-> 0], byte)

RECURSIVE WriteAll(_, _, _)
WriteAll(data, pos, bytes) ==
    IF bytes = <<>> THEN data
    ELSE WriteAll(WriteByte(data, pos, Head(bytes)), pos + 1, Tail(bytes))

\* The bytes of the pixel pairs (from, from+1), (from+2, from+3), ... : count of them.
PackedPairs(from, count) ==
    [b \in 1..count |-> Pack(Pixel(from + 2 * (b - 1)), Pixel(from + 2 * (b - 1) + 1))]

Entry(src, amount, bytes, z) ==
    [pixel_src |-> src, pixel_amount |-> amount, byte_amount |-> bytes, z_index |-> z]

Mark(filler, first) == [filler |-> filler, first_pixel |-> first]

-----------------------------------------------------------------------------
(* The Original branch: ActualEntry and the tile loop.                     *)

NoEntry == [kind |-> "None", initial_offset |-> 0, lenght |-> 0, z_index |-> 0]

ActualEntryNew(is_all_black, start_offset, z) ==
    IF is_all_black
    THEN [kind |-> "Null", initial_offset |-> 0, lenght |-> TileSize, z_index |-> z]
    ELSE [kind |-> "Some", initial_offset |-> start_offset, lenght |-> TileSize, z_index |-> z]

ToAssembly(e) ==
    IF e.kind = "Null"
    THEN Entry(0, e.lenght, e.lenght \div 2, e.z_index)
    ELSE Entry(e.initial_offset, e.lenght, e.lenght \div 2, e.z_index)

AdvanceStuck(e, lenght) == e

Advance(e, lenght) == [e EXCEPT !.lenght = e.lenght + lenght]

TileCount == ((width \div TileSide) * height) \div TileSide

IsAllBlack(tile) == \A l \in 0..(TileSize - 1) : Pixel(tile * TileSize + l) = 0

NeedToCreateNewEntry(e, is_all_black) ==
    IF e.kind = "None" THEN TRUE
    ELSE IF e.kind = "Null" THEN ~is_all_black
    ELSE is_all_black

\* One iteration of `for loop_nb in 0..(width / 8 * height / 8)`.
OriginalTile ==
    /\ pc = "original"
    /\ loop_nb < TileCount
    /\ loop_nb * TileSize + (TileSize - 1) < Len(pixel_list)
    /\ LET is_all_black == IsAllBlack(loop_nb)
           pos_before_area == file_pos
           written == IF is_all_black THEN <<>>
                      ELSE PackedPairs(loop_nb * TileSize, TileBytes)
       IN  /\ file_data' = WriteAll(file_data, file_pos, written)
           /\ file_pos' = file_pos + Len(written)
           /\ IF NeedToCreateNewEntry(actual_entry, is_all_black)
              THEN /\ assembly_table' =
                        IF actual_entry.kind # "None"
                        THEN Append(assembly_table, ToAssembly(actual_entry))
                        ELSE assembly_table
                   /\ emitted' =
                        IF actual_entry.kind # "None"
                        THEN Append(emitted, Mark(actual_entry.kind = "Null", open_first_pixel))
                        ELSE emitted
                   /\ actual_entry' = ActualEntryNew(is_all_black, pos_before_area, z_index)
                   /\ open_first_pixel' = loop_nb * TileSize
              ELSE /\ actual_entry' = Advance(actual_entry, TileSize)
                   /\ UNCHANGED <<assembly_table, emitted, open_first_pixel>>
    /\ loop_nb' = loop_nb + 1
    /\ UNCHANGED <<inputs, pc, pixel_id, number_of_byte_to_include, byte_include_start>>

\* pixel_list[(loop_nb * 64 + l) as usize] past the end of the buffer: the
\* tile is read before anything of it is written.
OriginalIndexPanic ==
    /\ pc = "original"
    /\ loop_nb < TileCount
    /\ loop_nb * TileSize + (TileSize - 1) >= Len(pixel_list)
    /\ pc' = "panicked"
    /\ UNCHANGED <<inputs, file_data, file_pos, assembly_table, emitted, loop_nb,
                   actual_entry, open_first_pixel, pixel_id,
                   number_of_byte_to_include, byte_include_start>>

\* assembly_table.push(actual_entry.unwrap().to_assembly()); Ok(assembly_table)
OriginalFinish ==
    /\ pc = "original"
    /\ loop_nb >= TileCount
    /\ actual_entry.kind # "None"
    /\ assembly_table' = Append(assembly_table, ToAssembly(actual_entry))
    /\ emitted' = Append(emitted, Mark(actual_entry.kind = "Null", open_first_pixel))
    /\ pc' = "returned"
    /\ UNCHANGED <<inputs, file_data, file_pos, loop_nb, actual_entry, open_first_pixel,
                   pixel_id, number_of_byte_to_include, byte_include_start>>

\* actual_entry.unwrap() on None: the loop ran no iteration.
OriginalUnwrapPanic ==
    /\ pc = "original"
    /\ loop_nb >= TileCount
    /\ actual_entry.kind = "None"
    /\ pc' = "panicked"
    /\ UNCHANGED <<inputs, file_data, file_pos, assembly_table, emitted, loop_nb,
                   actual_entry, open_first_pixel, pixel_id,
                   number_of_byte_to_include, byte_include_start>>

-----------------------------------------------------------------------------
(* The Optimised branch: one iteration of `loop` per step.                 *)

\* debug_assert!(pixel_id % 2 == 0) at the head of the iteration.
HeadAssertHolds == ~debug \/ pixel_id % 2 = 0

ShouldCreateNewTransparentEntry ==
    /\ pixel_id % multiple_of_value = 0
    /\ pixel_id + min_transparent_to_compress < Len(pixel_list)
    /\ \A l \in 0..(min_transparent_to_compress - 1) : Pixel(pixel_id + l) = 0

\* The inner loop: the first index at or after `from` that is past the
\* buffer or holds a non-transparent pixel.
RECURSIVE RunEnd(_)
RunEnd(from) ==
    IF from >= Len(pixel_list) THEN from
    ELSE IF Pixel(from) = 0 THEN RunEnd(from + 1)
    ELSE from

BackedOffKeepsEnd(end) == end

\* if pixel_id % multiple_of_value != 0 { pixel_id -= pixel_id % multiple_of_value }
BackedOff(end) ==
    IF end % multiple_of_value # 0 THEN end - (end % multiple_of_value) ELSE end

IncludeStartKept(old, pos) == old

\* byte_include_start = file.seek(SeekFrom::Current(0))? after a flush
IncludeStartAfterFlush(old, pos) == pos

LiteralEntry == Entry(byte_include_start, number_of_byte_to_include * 2,
                      number_of_byte_to_include, z_index)

LiteralMark == Mark(FALSE, pixel_id - 2 * number_of_byte_to_include)

OptimisedHeadAssertPanic ==
    /\ pc = "optimised"
    /\ ~HeadAssertHolds
    /\ pc' = "panicked"
    /\ UNCHANGED <<inputs, file_data, file_pos, assembly_table, emitted, loop_nb,
                   actual_entry, open_first_pixel, pixel_id,
                   number_of_byte_to_include, byte_include_start>>

\* The iteration that opens a transparent entry and ends in `continue`.
OptimisedTransparentRun ==
    /\ pc = "optimised"
    /\ HeadAssertHolds
    /\ ShouldCreateNewTransparentEntry
    /\ Len(assembly_table) < TableCap
    /\ LET flush == number_of_byte_to_include > 0
           end == RunEnd(pixel_id)
           transparent_tile_nb == (end - pixel_id) - (end - BackedOff(end))
       IN  /\ assembly_table' =
                 Append(IF flush THEN Append(assembly_table, LiteralEntry)
                        ELSE assembly_table,
                        Entry(0, transparent_tile_nb, transparent_tile_nb \div 2, z_index))
           /\ emitted' =
                 Append(IF flush THEN Append(emitted, LiteralMark) ELSE emitted,
                        Mark(TRUE, pixel_id))
           /\ number_of_byte_to_include' = 0
           /\ byte_include_start' =
                 IF flush THEN IncludeStartAfterFlush(byte_include_start, file_pos)
                 ELSE byte_include_start
           /\ pixel_id' = BackedOff(end)
    /\ UNCHANGED <<inputs, file_data, file_pos, pc, loop_nb, actual_entry, open_first_pixel>>

\* The table outgrows the memory there is: the allocation fails and the
\* process aborts.
OptimisedTableExhausted ==
    /\ pc = "optimised"
    /\ HeadAssertHolds
    /\ ShouldCreateNewTransparentEntry
    /\ Len(assembly_table) >= TableCap
    /\ pc' = "aborted"
    /\ UNCHANGED <<inputs, file_data, file_pos, assembly_table, emitted, loop_nb,
                   actual_entry, open_first_pixel, pixel_id,
                   number_of_byte_to_include, byte_include_start>>

\* pixel_list[pixel_id + 1] past the end, or a debug_assert!(... < 16) failing.
PackPanics ==
    IF pixel_id + 1 >= Len(pixel_list) THEN TRUE
    ELSE debug /\ ~(Pixel(pixel_id) < 16 /\ Pixel(pixel_id + 1) < 16)

OptimisedPackPair ==
    /\ pc = "optimised"
    /\ HeadAssertHolds
    /\ ~ShouldCreateNewTransparentEntry
    /\ pixel_id < Len(pixel_list)
    /\ ~PackPanics
    /\ file_data' = WriteByte(file_data, file_pos, Pack(Pixel(pixel_id), Pixel(pixel_id + 1)))
    /\ file_pos' = file_pos + 1
    /\ pixel_id' = pixel_id + 2
    /\ number_of_byte_to_include' = number_of_byte_to_include + 1
    /\ UNCHANGED <<inputs, assembly_table, emitted, pc, loop_nb, actual_entry,
                   open_first_pixel, byte_include_start>>

OptimisedPackPanic ==
    /\ pc = "optimised"
    /\ HeadAssertHolds
    /\ ~ShouldCreateNewTransparentEntry
    /\ pixel_id < Len(pixel_list)
    /\ PackPanics
    /\ pc' = "panicked"
    /\ UNCHANGED <<inputs, file_data, file_pos, assembly_table, emitted, loop_nb,
                   actual_entry, open_first_pixel, pixel_id,
                   number_of_byte_to_include, byte_include_start>>

\* `break`, the flush of the open literal entry, Ok(assembly_table).
OptimisedFinish ==
    /\ pc = "optimised"
    /\ HeadAssertHolds
    /\ ~ShouldCreateNewTransparentEntry
    /\ pixel_id >= Len(pixel_list)
    /\ IF number_of_byte_to_include > 0
       THEN /\ assembly_table' = Append(assembly_table, LiteralEntry)
            /\ emitted' = Append(emitted, LiteralMark)
       ELSE UNCHANGED <<assembly_table, emitted>>
    /\ pc' = "returned"
    /\ UNCHANGED <<inputs, file_data, file_pos, loop_nb, actual_entry, open_first_pixel,
                   pixel_id, number_of_byte_to_include, byte_include_start>>

-----------------------------------------------------------------------------
(* The NoCompression branch.                                               *)

\* pixel_list.chunks_exact(2): a trailing odd pixel is left out.
NoCompressionAll ==
    /\ pc = "nocompression"
    /\ LET byte_len == Len(pixel_list) \div 2
           start_offset == file_pos
       IN  /\ file_data' = WriteAll(file_data, file_pos, PackedPairs(0, byte_len))
           /\ file_pos' = file_pos + byte_len
           /\ assembly_table' =
                 Append(assembly_table, Entry(start_offset, byte_len * 2, byte_len, z_index))
           /\ emitted' = Append(emitted, Mark(FALSE, 0))
    /\ pc' = "returned"
    /\ UNCHANGED <<inputs, loop_nb, actual_entry, open_first_pixel, pixel_id,
                   number_of_byte_to_include, byte_include_start>>

-----------------------------------------------------------------------------
(* The call, the inputs and the specification.                             *)

\* `match self`, with the locals each branch sets before its loop.
Call ==
    /\ pc = "call"
    /\ pc' = IF method = "CompressionMethodOriginal" THEN "original"
             ELSE IF method = "CompressionMethodOptimised" THEN "optimised"
             ELSE "nocompression"
    /\ assembly_table' = <<>>
    /\ actual_entry' = NoEntry
    /\ loop_nb' = 0
    /\ number_of_byte_to_include' = 0
    /\ byte_include_start' = file_pos
    /\ pixel_id' = 0
    /\ UNCHANGED <<inputs, file_data, file_pos, emitted, open_first_pixel>>

Methods == {"CompressionMethodOriginal", "CompressionMethodOptimised", "NoCompression"}

NullTile == Zeros(TileSize)
LastPixelTile == [i \in 1..TileSize |-> IF i = TileSize THEN 9 ELSE 0]
MixedTile == [i \in 1..TileSize |-> IF i % 2 = 1 THEN 9 ELSE 5]
TilePatterns == {NullTile, LastPixelTile, MixedTile}

RECURSIVE TileBuffers(_)
TileBuffers(n) ==
    IF n = 0 THEN {<<>>}
    ELSE {b \o t : b \in TileBuffers(n - 1), t \in TilePatterns}

\* The buffers given with a w x h image: its w*h pixels, tile after tile,
\* and the malformed ones: a pixel or a pair too many, a pair too few.
OriginalBuffers(w, h) ==
    LET exact == TileBuffers((w * h) \div TileSize)
    IN  exact
        \cup {Append(b, 9) : b \in exact}
        \cup {b \o <<9, 0>> : b \in exact}
        \cup {SubSeq(b, 1, Len(b) - 2) : b \in {x \in exact : Len(x) >= 2}}

\* Image sides are whole tiles.
Sides == {TileSide * k : k \in 0..MaxTiles}

Init ==
    /\ method \in Methods
    /\ debug \in BOOLEAN
    /\ z_index \in ZIndexes
    /\ start_pos \in 0..MaxStart
    /\ IF method = "CompressionMethodOptimised"
       THEN /\ multiple_of_value \in 1..MaxMultiple
            /\ min_transparent_to_compress \in 1..MaxMinTransparent
       ELSE /\ multiple_of_value = 1
            /\ min_transparent_to_compress = 1
    /\ IF method = "CompressionMethodOriginal"
       THEN /\ width \in Sides
            /\ height \in Sides
            /\ width * height <= MaxTiles * TileSize
            /\ pixel_list \in OriginalBuffers(width, height)
       ELSE /\ width = 0
            /\ height = 0
            /\ pixel_list \in SeqsUpTo(PixelValues, MaxLen)
    /\ start_data \in {OldContent(n) : n \in 0..MaxContent}
    /\ file_data = start_data
    /\ file_pos = start_pos
    /\ assembly_table = <<>>
    /\ emitted = <<>>
    /\ pc = "call"
    /\ loop_nb = 0
    /\ actual_entry = NoEntry
    /\ open_first_pixel = 0
    /\ pixel_id = 0
    /\ number_of_byte_to_include = 0
    /\ byte_include_start = 0

Next ==
    \/ Call
    \/ OriginalTile
    \/ OriginalIndexPanic
    \/ OriginalFinish
    \/ OriginalUnwrapPanic
    \/ OptimisedHeadAssertPanic
    \/ OptimisedTransparentRun
    \/ OptimisedTableExhausted
    \/ OptimisedPackPair
    \/ OptimisedPackPanic
    \/ OptimisedFinish
    \/ NoCompressionAll

Spec == Init /\ [][Next]_vars

-----------------------------------------------------------------------------
(* What the claims speak of.                                               *)

Ended == pc \in {"returned", "panicked", "aborted"}

IsOriginal == method = "CompressionMethodOriginal"
IsOptimised == method = "CompressionMethodOptimised"

\* An even-length buffer; for Original the width*height pixels of the
\* image, a whole number of tiles.
ValidInput ==
    /\ Len(pixel_list) % 2 = 0
    /\ IsOriginal => /\ Len(pixel_list) % TileSize = 0
                     /\ Len(pixel_list) = width * height

\* An odd-length buffer, or one that is not whole tiles under Original.
MalformedInput ==
    \/ Len(pixel_list) % 2 # 0
    \/ IsOriginal /\ Len(pixel_list) % TileSize # 0

\* Two pixels per byte, the high nibble first.
UnpackBytes(bytes) ==
    [i \in 1..(2 * Len(bytes)) |->
        IF i % 2 = 1 THEN bytes[(i + 1) \div 2] \div 16 ELSE bytes[i \div 2] % 16]

\* The replay of a table in order: pixel_amount zeros for an entry pushed
\* for a transparent run, the unpacked byte_amount bytes at pixel_src for a
\* literal entry.
RECURSIVE Replay(_, _, _)
Replay(table, marks, data) ==
    IF table = <<>> THEN <<>>
    ELSE LET e == Head(table)
             here == IF Head(marks).filler THEN Zeros(e.pixel_amount)
                     ELSE UnpackBytes(SubSeq(data, e.pixel_src + 1,
                                             e.pixel_src + e.byte_amount))
         IN  here \o Replay(Tail(table), Tail(marks), data)

FillerIndexes == {i \in 1..Len(assembly_table) : emitted[i].filler}
LiteralIndexes == {i \in 1..Len(assembly_table) : ~emitted[i].filler}

\* The input pixels entry i stands for.
Covered(i) ==
    emitted[i].first_pixel ..
        (emitted[i].first_pixel + assembly_table[i].pixel_amount - 1)

\* C1: for every strategy, sink position and valid buffer, compress returns
\* a table whose in-order replay reproduces the buffer exactly.
C1_RoundTrip ==
    (Ended /\ ValidInput) =>
        /\ pc = "returned"
        /\ Replay(assembly_table, emitted, file_data) = pixel_list

\* C2: the Optimised scan loop makes progress on every iteration: it never
\* comes back to its head with the same pixel index and the same pending
\* byte count, so that the call eventually returns.
C2_ScanProgress ==
    [][(pc = "optimised" /\ pc' = "optimised" /\ Len(pixel_list) % 2 = 0) =>
          <<pixel_id', number_of_byte_to_include'>>
              # <<pixel_id, number_of_byte_to_include>>]_vars

\* C3: on a malformed buffer compress returns Err: it neither returns Ok
\* with a table nor panics.
C3_MalformedIsError ==
    MalformedInput => pc \notin {"returned", "panicked"}

\* C4: on a valid input compress never panics.
C4_NoPanic ==
    ValidInput => pc # "panicked"

\* C5: a literal entry never carries the offset 0 that filler entries
\* carry, so that the two kinds are told apart by the entry's own fields.
C5_LiteralOffsetNotZero ==
    (pc = "returned" /\ ValidInput) =>
        \A i \in LiteralIndexes : assembly_table[i].pixel_src # 0

\* C6: under Optimised every transparent entry pushed to the table starts
\* at an input index that is a multiple of multiple_of_value and has a
\* pixel_amount that is a multiple of multiple_of_value.
C6_TransparentAligned ==
    (IsOptimised /\ Len(pixel_list) % 2 = 0) =>
        \A i \in FillerIndexes :
            /\ emitted[i].first_pixel % multiple_of_value = 0
            /\ assembly_table[i].pixel_amount % multiple_of_value = 0

\* A transparent run that reached the end of the buffer was pushed, backed
\* off to a multiple of multiple_of_value that is not the end.
C6_Witness ==
    /\ IsOptimised
    /\ pc = "returned"
    /\ Len(pixel_list) % 2 = 0
    /\ \E i \in FillerIndexes :
          LET end == emitted[i].first_pixel + assembly_table[i].pixel_amount
          IN  /\ assembly_table[i].pixel_amount > 0
              /\ end < Len(pixel_list)
              /\ \A j \in emitted[i].first_pixel..(Len(pixel_list) - 1) : Pixel(j) = 0

\* The index starts a run of min_transparent_to_compress transparent
\* pixels inside the buffer, at a multiple of multiple_of_value.
Eligible(idx) ==
    /\ idx % multiple_of_value = 0
    /\ idx + min_transparent_to_compress <= Len(pixel_list)
    /\ \A l \in 0..(min_transparent_to_compress - 1) : Pixel(idx + l) = 0

\* C7: in a table returned for Optimised no literal entry covers an
\* eligible index.
C7_EligibleRunsCompressed ==
    (IsOptimised /\ pc = "returned" /\ Len(pixel_list) % 2 = 0) =>
        \A i \in LiteralIndexes : \A idx \in Covered(i) : ~Eligible(idx)

\* The sink position after the entries before entry i, were the literal
\* entries laid one after the other from the starting position.
RECURSIVE LiteralBytesBefore(_)
LiteralBytesBefore(i) ==
    IF i <= 1 THEN 0
    ELSE LiteralBytesBefore(i - 1)
         + (IF emitted[i - 1].filler THEN 0 ELSE assembly_table[i - 1].byte_amount)

LiteralRangesConsecutive ==
    /\ \A i \in LiteralIndexes :
          assembly_table[i].pixel_src = start_pos + LiteralBytesBefore(i)
    /\ start_pos + LiteralBytesBefore(Len(assembly_table) + 1) = file_pos

\* The literal ranges, [start_pos, file_pos) together, are the bytes the
\* call appended to the sink, [Len(start_data), Len(file_data)).
LiteralRangesCoverAppended ==
    /\ LiteralRangesConsecutive
    /\ (file_pos > start_pos \/ Len(file_data) > Len(start_data)) =>
          (start_pos = Len(start_data) /\ file_pos = Len(file_data))

\* The iteration of a transparent run and the iteration of a null tile
\* leave the sink as it is.
FillerStepWritesNothing ==
    /\ (pc = "optimised" /\ Len(emitted') > Len(emitted)
          /\ emitted'[Len(emitted')].filler) =>
         (file_data' = file_data /\ file_pos' = file_pos)
    /\ (pc = "original" /\ loop_nb' = loop_nb + 1 /\ IsAllBlack(loop_nb)) =>
         (file_data' = file_data /\ file_pos' = file_pos)

\* C8: for every starting sink position compress only appends to the sink:
\* the position never decreases and no byte already in the sink changes;
\* the iteration of a transparent run and the iteration of a null tile
\* write nothing; and in the table returned the literal entries' byte
\* ranges are consecutive from the starting position and cover exactly the
\* bytes appended.
C8_SinkLayout ==
    [][/\ file_pos' >= file_pos
       /\ Len(file_data') >= Len(file_data)
       /\ SubSeq(file_data', 1, Len(file_data)) = file_data
       /\ FillerStepWritesNothing
       /\ pc' = "returned" => LiteralRangesCoverAppended']_vars

\* C8 as amended: compress writes the sink sequentially from the starting
\* position: the position never decreases, a step changes no byte outside
\* the positions it advances over, fillers and null tiles write nothing,
\* and in the table returned the literal entries' byte ranges are
\* consecutive from the starting position and end at the final position,
\* all of them inside the sink.  From a sink positioned at the end of its
\* content every step appends: no byte already in the sink changes and the
\* position stays at the end.
C8_SequentialWrite ==
    [][/\ file_pos' >= file_pos
       /\ Len(file_data') >= Len(file_data)
       /\ \A i \in 1..Len(file_data) :
             (i <= file_pos \/ i > file_pos') => file_data'[i] = file_data[i]
       /\ file_pos' > file_pos => Len(file_data') >= file_pos'
       /\ FillerStepWritesNothing
       /\ file_pos = Len(file_data) =>
             /\ SubSeq(file_data', 1, Len(file_data)) = file_data
             /\ file_pos' = Len(file_data')
       /\ pc' = "returned" => LiteralRangesConsecutive']_vars

LiteralFillerLiteral ==
    \E i \in LiteralIndexes : \E j \in FillerIndexes : \E k \in LiteralIndexes :
        /\ i < j /\ j < k
        /\ assembly_table[i].byte_amount > 0
        /\ assembly_table[j].pixel_amount > 0
        /\ assembly_table[k].byte_amount > 0

\* A returned table with two literal entries around a filler entry, written
\* from a position after the sink's first byte and before its last.
C8_Witness ==
    /\ pc = "returned"
    /\ start_pos > 0
    /\ start_pos < Len(start_data)
    /\ file_data # start_data
    /\ LiteralFillerLiteral

\* Tiles of the buffer, numbered from 0.
TilesOfBuffer == Len(pixel_list) \div TileSize

NullityChanges ==
    Cardinality({t \in 1..(TilesOfBuffer - 1) : IsAllBlack(t - 1) # IsAllBlack(t)})

RECURSIVE PixelsBefore(_)
PixelsBefore(i) ==
    IF i <= 1 THEN 0 ELSE PixelsBefore(i - 1) + assembly_table[i - 1].pixel_amount

NonNullTilesBefore(t) == Cardinality({u \in 0..(t - 1) : ~IsAllBlack(u)})

\* Entry i is the maximal run of tiles of equal nullity that starts where
\* the entries before it end.
IsMaximalRun(i) ==
    LET e == assembly_table[i]
        first == PixelsBefore(i) \div TileSize
        k == e.pixel_amount \div TileSize
    IN  /\ k >= 1
        /\ e.pixel_amount = TileSize * k
        /\ e.byte_amount = TileBytes * k
        /\ first + k <= TilesOfBuffer
        /\ \A t \in first..(first + k - 1) : IsAllBlack(t) = emitted[i].filler
        /\ first > 0 => IsAllBlack(first - 1) # emitted[i].filler
        /\ first + k < TilesOfBuffer => IsAllBlack(first + k) # emitted[i].filler
        /\ ~emitted[i].filler =>
              e.pixel_src = start_pos + TileBytes * NonNullTilesBefore(first)

\* C9: for a buffer of n >= 1 tiles Original returns the run-length
\* encoding of tile nullity: 1 + (nullity changes) entries, alternately
\* filler and literal, each its maximal run of k tiles with 64k pixels and
\* 32k bytes, a literal entry's pixel_src the sink position before its
\* first tile.
C9_OriginalRunLength ==
    (IsOriginal /\ pc = "returned" /\ ValidInput /\ TilesOfBuffer >= 1) =>
        /\ Len(assembly_table) = 1 + NullityChanges
        /\ \A i \in 1..(Len(assembly_table) - 1) :
              emitted[i].filler # emitted[i + 1].filler
        /\ \A i \in 1..Len(assembly_table) : IsMaximalRun(i)
        /\ PixelsBefore(Len(assembly_table) + 1) = Len(pixel_list)

\* A returned table of a run of two tiles followed by a tile of the other
\* nullity.
C9_Witness ==
    /\ IsOriginal
    /\ pc = "returned"
    /\ ValidInput
    /\ Len(assembly_table) = 2
    /\ assembly_table[1].pixel_amount = 2 * TileSize
    /\ start_pos > 0

\* C10: the pixel index is even at the head of every iteration of the
\* Optimised scan loop.
C10_PixelIdEven ==
    (pc = "optimised" /\ Len(pixel_list) % 2 = 0) => pixel_id % 2 = 0

\* Whenever compress returns on a valid input, the replay of its table
\* reproduces the buffer.
ReturnedRoundTrip ==
    (pc = "returned" /\ ValidInput) =>
        Replay(assembly_table, emitted, file_data) = pixel_list

====
